---- MODULE Spec2Model ----
(***************************************************************************)
(* Model of the webhook relay handler of src/api/webhook.ts.               *)
(*                                                                         *)
(* One invocation of `handler` is a sequence of steps, cut at the awaits   *)
(* of the source: the synchronous prefix (gate, query parse, body parse,   *)
(* classification up to the first await) is the action Invoke; every       *)
(* awaited call settles in an action of its own, either resolving (the     *)
(* code after the await runs up to the next await) or rejecting (control   *)
(* passes to the catch block).  Outbound calls are logged in `calls`, the  *)
(* payloads handed to fetch in `dispatched`.                               *)
(***************************************************************************)
EXTENDS Integers, Sequences, FiniteSets, TLC

(***************************************************************************)
(* Bounds of the model.                                                    *)
(***************************************************************************)
NumUsers == 2

(***************************************************************************)
(* Markers for the JavaScript values null / undefined and for a value      *)
(* that is not a string (a repeated query parameter parses as an array).   *)
(***************************************************************************)
Null == "<null>"
Undefined == "<undefined>"
ArrayValue == "<array>"

(***************************************************************************)
(* Compiled-in configuration, lines 9-39.                                  *)
(***************************************************************************)
DISCORD_WEBHOOKS_URL == "https://discord.com/api/webhooks"
WEBHOOK_USERNAME == "Linear"
WEBHOOK_AVATAR_URL == "https://ldw.screfy.com/static/linear.png"
LINEAR_BASE_URL == "https://linear.app"
LINEAR_COLOR == "#5E6AD2"
LINEAR_TRUSTED_IPS == {"35.231.147.226", "35.243.134.228"}

QUERY_SCHEMA == <<"webhookId", "webhookToken", "linearToken">>

LINEAR_DISPLAY_NAME_TO_DISCORD_ID ==
    [n \in {"kong", "kyo.production99", "james.lee", "aki", "junxiong.low"} |->
        CASE n = "kong" -> "152805815097491456"
          [] n = "kyo.production99" -> "946380955088732160"
          [] n = "james.lee" -> "289070271523061761"
          [] n = "aki" -> "181394763683987457"
          [] n = "junxiong.low" -> "611578492026486808"]

(***************************************************************************)
(* The enums of lib/schema/utils (values of the tracker's webhook          *)
(* payloads).                                                              *)
(***************************************************************************)
ModelISSUE == "Issue"
ModelCOMMENT == "Comment"
ActionCREATE == "create"
ActionUPDATE == "update"

(***************************************************************************)
(* Strings as sequences of characters, and String.prototype.split.         *)
(***************************************************************************)
RECURSIVE SplitAcc(_, _, _, _)
SplitAcc(s, sep, cur, acc) ==
    IF s = <<>> THEN Append(acc, cur)
    ELSE IF Head(s) = sep
         THEN SplitAcc(Tail(s), sep, <<>>, Append(acc, cur))
         ELSE SplitAcc(Tail(s), sep, Append(cur, Head(s)), acc)

Split(s, sep) == SplitAcc(s, sep, <<>>, <<>>)

(***************************************************************************)
(* parseIdentifier: url.split('/')[5].split('#')[0].  Index 5 of a shorter *)
(* array is undefined, and the second split then throws a TypeError.       *)
(***************************************************************************)
parseIdentifier(url) ==
    LET segs == Split(url, "/") IN
    IF Len(segs) < 6
    THEN [threw |-> TRUE, value |-> <<>>]
    ELSE [threw |-> FALSE, value |-> Split(segs[6], "#")[1]]

(***************************************************************************)
(* Inputs of an invocation.                                                *)
(***************************************************************************)
Methods == {"GET", "POST", "PUT"}
NodeEnvs == {"development", "production"}
ForwardedForHeaders ==
    {Undefined, "35.231.147.226", "35.243.134.228", "203.0.113.7"}
QueryValues == {Undefined, ArrayValue, "abc"}
Queries == [{"webhookId", "webhookToken", "linearToken"} -> QueryValues]

UserIds == 1 .. NumUsers
DisplayNames == {"kong", "aki", "nobody", "constructor"}

\* https://l/w/issue/E1#c (identifier segment carries a fragment),
\* https://l/w/issue/E1/t (plain identifier segment), https://l/w (too short)
Urls ==
    { <<"h", ":", "/", "/", "l", "/", "w", "/", "i", "/", "E", "1", "#", "c">>,
      <<"h", ":", "/", "/", "l", "/", "w", "/", "i", "/", "E", "1", "/", "t">>,
      <<"h", ":", "/", "/", "l", "/", "w">> }

DefaultBody ==
    [type |-> "", action |-> "", wellFormed |-> FALSE, url |-> <<>>,
     creatorId |-> 0, userId |-> 0, assigneeId |-> 0,
     updatedFromStateId |-> FALSE, description |-> FALSE]

IssueCreateBodies ==
    { [DefaultBody EXCEPT !.type = ModelISSUE, !.action = ActionCREATE,
                          !.wellFormed = TRUE, !.url = u, !.creatorId = c,
                          !.assigneeId = a, !.description = d] :
        u \in Urls, c \in UserIds, a \in 0 .. NumUsers, d \in BOOLEAN }

IssueUpdateBodies ==
    { [DefaultBody EXCEPT !.type = ModelISSUE, !.action = ActionUPDATE,
                          !.wellFormed = TRUE, !.url = u, !.creatorId = c,
                          !.assigneeId = a, !.updatedFromStateId = s] :
        u \in Urls, c \in UserIds, a \in 0 .. NumUsers, s \in BOOLEAN }

CommentCreateBodies ==
    { [DefaultBody EXCEPT !.type = ModelCOMMENT, !.action = ActionCREATE,
                          !.wellFormed = TRUE, !.url = u, !.userId = c] :
        u \in Urls, c \in UserIds }

\* a supported (type, action) pair with a required field missing
MalformedBodies ==
    { [DefaultBody EXCEPT !.type = ta[1], !.action = ta[2]] :
        ta \in { <<ModelISSUE, ActionCREATE>>, <<ModelISSUE, ActionUPDATE>>,
                 <<ModelCOMMENT, ActionCREATE>> } }

\* unsupported (type, action) pairs, and a body that is no event at all
UnsupportedBodies ==
    { [DefaultBody EXCEPT !.type = ta[1], !.action = ta[2], !.wellFormed = TRUE] :
        ta \in { <<ModelISSUE, "remove">>, <<ModelCOMMENT, ActionUPDATE>>,
                 <<"Project", ActionCREATE>>, <<"", "">> } }

Bodies ==
    IssueCreateBodies \cup IssueUpdateBodies \cup CommentCreateBodies
        \cup MalformedBodies \cup UnsupportedBodies

(***************************************************************************)
(* SCHEMA.safeParse(req.body).success: the closed schema of lib/schema     *)
(* accepts the three supported (type, action) pairs with their required    *)
(* fields.                                                                 *)
(***************************************************************************)
SupportedPair(body) ==
    \/ body.type = ModelISSUE /\ body.action \in {ActionCREATE, ActionUPDATE}
    \/ body.type = ModelCOMMENT /\ body.action = ActionCREATE

SCHEMA(body) == SupportedPair(body) /\ body.wellFormed

\* a test of the discriminating pair alone
BodyRejected_PairOnly(body) == ~SupportedPair(body)

\* lines 67-70: result = SCHEMA.safeParse(req.body); if (!result.success)
BodyRejected(body) == ~SCHEMA(body)

(***************************************************************************)
(* Thrown values and the response envelope.  `error` of the envelope is a  *)
(* string, a list of issues, or null.                                      *)
(***************************************************************************)
ErrorNull == [kind |-> "null", text |-> "", issues |-> <<>>]
ErrorString(s) == [kind |-> "string", text |-> s, issues |-> <<>>]
ErrorIssues(iss) == [kind |-> "issues", text |-> "", issues |-> iss]

HttpError(message, statusCode) ==
    [class |-> "HttpError", message |-> message, statusCode |-> statusCode,
     issues |-> <<>>]
ZodError(issues) ==
    [class |-> "ZodError", message |-> "", statusCode |-> 0, issues |-> issues]
OtherError ==
    [class |-> "Error", message |-> "", statusCode |-> 0, issues |-> <<>>]

Envelope(success, message, error) ==
    [success |-> success, message |-> message, error |-> error]

NoResponse ==
    [sent |-> FALSE, statusCode |-> 200, body |-> Envelope(FALSE, Null, ErrorNull)]

\* res.send(body) with the status at its default
Send(body) == [sent |-> TRUE, statusCode |-> 200, body |-> body]

\* a catch block without the ZodError branch
Catch_NoZodBranch(e) ==
    LET error == IF e.class = "HttpError" THEN ErrorString(e.message)
                 ELSE ErrorString("Something went wrong.")
        statusCode == IF e.class = "HttpError" THEN e.statusCode ELSE 500
    IN [sent |-> TRUE, statusCode |-> statusCode,
        body |-> Envelope(FALSE, Null, error)]

\* the catch block, lines 182-195
Catch(e) ==
    LET error == IF e.class = "HttpError" THEN ErrorString(e.message)
                 ELSE IF e.class = "ZodError" THEN ErrorIssues(e.issues)
                 ELSE ErrorString("Something went wrong.")
        statusCode == IF e.class = "HttpError" THEN e.statusCode
                      ELSE IF e.class = "ZodError" THEN 400
                      ELSE 500
    IN [sent |-> TRUE, statusCode |-> statusCode,
        body |-> Envelope(FALSE, Null, error)]

(***************************************************************************)
(* The request gate, lines 47-62.                                          *)
(***************************************************************************)
ForwardedFor(header) == IF header = Undefined THEN "" ELSE header

\* a gate that lets another method through
MethodAllowed_Lax(method) == method \in {"POST", "PUT"}

MethodAllowed(method) == method = "POST"

\* a gate that only asks for the header to be there
TrustedIp_AnySender(env, forwardedFor) ==
    env = "development" \/ forwardedFor # ""

TrustedIp(env, forwardedFor) ==
    env = "development" \/ forwardedFor \in LINEAR_TRUSTED_IPS

(***************************************************************************)
(* QUERY_SCHEMA.parse(req.query): one invalid_type issue per field that is *)
(* not a string, in the order of the schema's keys.                        *)
(***************************************************************************)
IsString(v) == v \notin {Undefined, ArrayValue}

\* a query schema that forgot the source-tracker token
QueryIssues_NoToken(query) ==
    SelectSeq(<<"webhookId", "webhookToken">>, LAMBDA k : ~IsString(query[k]))

QueryIssues(query) ==
    SelectSeq(QUERY_SCHEMA, LAMBDA k : ~IsString(query[k]))

(***************************************************************************)
(* Mention resolution, lines 164-174.  The table is a plain object, so an  *)
(* index expression also finds the properties every object inherits.       *)
(***************************************************************************)
ObjectPrototypeKeys ==
    {"constructor", "toString", "valueOf", "hasOwnProperty", "__proto__"}

TableLookup(displayName) ==
    IF displayName \in DOMAIN LINEAR_DISPLAY_NAME_TO_DISCORD_ID
    THEN LINEAR_DISPLAY_NAME_TO_DISCORD_ID[displayName]
    ELSE IF displayName \in ObjectPrototypeKeys
         THEN "<inherited " \o displayName \o ">"
         ELSE Undefined

NoUser == [id |-> 0, displayName |-> ""]

DiscordUserId(assignee, actionUser) ==
    IF assignee # NoUser /\ actionUser # NoUser /\ assignee.id # actionUser.id
    THEN TableLookup(assignee.displayName)
    ELSE Undefined

NoContent == [present |-> FALSE, mention |-> ""]

Content(discordUserId) ==
    IF discordUserId # Undefined
    THEN [present |-> TRUE, mention |-> discordUserId]
    ELSE NoContent

(***************************************************************************)
(* The embed, lines 79-82, and the setters the recipes apply to it.  User  *)
(* records carry the two fields the mention logic reads; the footer holds  *)
(* the id of the user whose name and avatar it shows (0: no footer).       *)
(***************************************************************************)
NewEmbed ==
    [color |-> LINEAR_COLOR, timestamp |-> "body.createdAt", title |-> <<>>,
     url |-> <<>>, author |-> "", footer |-> 0, description |-> "",
     fields |-> <<>>]

Title(identifier, title) == identifier \o <<" ">> \o title

\* lines 94-106
IssueCreateEmbed(e, body, identifier, user) ==
    [e EXCEPT !.title = Title(identifier, <<"T">>), !.url = body.url,
              !.author = "New issue added", !.footer = user.id,
              !.fields = <<"Team", "Status">>]

\* lines 111-120
IssueCreateTail(e, body, withAssignee) ==
    LET f == IF withAssignee THEN Append(e.fields, "Assignee") ELSE e.fields
        d == IF body.description THEN "body.data.description" ELSE e.description
    IN [e EXCEPT !.fields = f, !.description = d]

\* lines 129-135
IssueUpdateEmbed(e, body, identifier, user) ==
    [e EXCEPT !.title = Title(identifier, <<"T">>), !.url = body.url,
              !.author = "Status changed", !.color = "body.data.state.color",
              !.footer = user.id, !.description = "Status: **state.name**"]

\* lines 150-155
CommentCreateEmbed(e, body, identifier, user) ==
    [e EXCEPT !.title = Title(identifier, <<"T">>), !.url = body.url,
              !.author = "New comment", !.footer = user.id,
              !.description = "body.data.body"]

(***************************************************************************)
(* The branch of the switch a body takes, lines 87-160.                    *)
(***************************************************************************)
\* a switch that takes every Issue update for a status change
Recipe_AnyUpdate(body) ==
    IF body.type = ModelISSUE /\ body.action = ActionCREATE THEN "IssueCreate"
    ELSE IF body.type = ModelISSUE /\ body.action = ActionUPDATE
         THEN "IssueUpdate"
    ELSE IF body.type = ModelCOMMENT /\ body.action = ActionCREATE
         THEN "CommentCreate"
    ELSE "none"

Recipe(body) ==
    IF body.type = ModelISSUE /\ body.action = ActionCREATE THEN "IssueCreate"
    ELSE IF body.type = ModelISSUE /\ body.action = ActionUPDATE
            /\ body.updatedFromStateId THEN "IssueUpdate"
    ELSE IF body.type = ModelCOMMENT /\ body.action = ActionCREATE
         THEN "CommentCreate"
    ELSE "none"

\* the id the first lookup of a recipe asks for, lines 90, 122, 142
ActorId(body) == IF body.type = ModelCOMMENT THEN body.userId ELSE body.creatorId

(***************************************************************************)
(* The dispatch, lines 162-179.                                            *)
(***************************************************************************)
Payload(query, a, u, e) ==
    [url |-> <<DISCORD_WEBHOOKS_URL, query["webhookId"], query["webhookToken"]>>,
     content |-> Content(DiscordUserId(a, u)),
     username |-> WEBHOOK_USERNAME, avatar_url |-> WEBHOOK_AVATAR_URL,
     embeds |-> <<e>>]

\* a skip that reports the unsupported event as a client error
SkipResponse_AsError ==
    [sent |-> TRUE, statusCode |-> 400,
     body |-> Envelope(FALSE, Null, ErrorString("Event skipped."))]

SkipResponse == Send(Envelope(TRUE, "Event skipped.", ErrorNull))
OkResponse == Send(Envelope(TRUE, "OK", ErrorNull))

(***************************************************************************)
(* State.                                                                  *)
(***************************************************************************)
VARIABLES NODE_ENV, pc, req, res, embed, actionUser, assignee, linearIssue,
          calls, dispatched

vars == <<NODE_ENV, pc, req, res, embed, actionUser, assignee, linearIssue,
          calls, dispatched>>

NoRequest ==
    [method |-> "", header |-> Undefined,
     query |-> [k \in {"webhookId", "webhookToken", "linearToken"} |-> Undefined],
     body |-> DefaultBody]

NoIssue == [fetched |-> FALSE, assigneeId |-> 0]

Call(api, id) == [api |-> api, id |-> id, outcome |-> "pending"]

\* the log with the awaited (last) call settled
Settled(outcome) == [calls EXCEPT ![Len(calls)].outcome = outcome]

Init ==
    /\ NODE_ENV \in NodeEnvs
    /\ pc = "idle"
    /\ req = NoRequest
    /\ res = NoResponse
    /\ embed = NewEmbed
    /\ actionUser = NoUser
    /\ assignee = NoUser
    /\ linearIssue = NoIssue
    /\ calls = <<>>
    /\ dispatched = <<>>

Step(npc, nres, ncalls, nembed, nuser, nassignee, nissue, ndispatched) ==
    /\ pc' = npc
    /\ res' = nres
    /\ calls' = ncalls
    /\ embed' = nembed
    /\ actionUser' = nuser
    /\ assignee' = nassignee
    /\ linearIssue' = nissue
    /\ dispatched' = ndispatched

\* a throw inside the try block: the catch block answers, nothing follows
Throw(e, ncalls, nembed, nuser, nassignee, nissue, d) ==
    Step("done", Catch(e), ncalls, nembed, nuser, nassignee, nissue, d)

\* line 167: fetch is called and awaited
Dispatch(query, nres, ncalls, nembed, nuser, nassignee, nissue, d) ==
    Step("fetch", nres, Append(ncalls, Call("fetch", 0)), nembed, nuser,
         nassignee, nissue,
         Append(d, Payload(query, nassignee, nuser, nembed)))

(***************************************************************************)
(* handler, from its entry to its first await or to its response.          *)
(***************************************************************************)
Invoke ==
    /\ pc = "idle"
    /\ \E method \in Methods, header \in ForwardedForHeaders,
          query \in Queries, body \in Bodies :
        /\ req' = [method |-> method, header |-> header, query |-> query,
                   body |-> body]
        /\ IF ~MethodAllowed(method)
           THEN Throw(HttpError("Method " \o method \o " is not allowed.", 405),
                      <<>>, NewEmbed, NoUser, NoUser, NoIssue, <<>>)
           ELSE IF ~TrustedIp(NODE_ENV, ForwardedFor(header))
           THEN Throw(HttpError("Request from IP address " \o ForwardedFor(header)
                                    \o " is not allowed.", 403),
                      <<>>, NewEmbed, NoUser, NoUser, NoIssue, <<>>)
           ELSE IF QueryIssues(query) # <<>>
           THEN Throw(ZodError(QueryIssues(query)),
                      <<>>, NewEmbed, NoUser, NoUser, NoIssue, <<>>)
           ELSE IF BodyRejected(body)
           THEN Step("done", SkipResponse, <<>>, NewEmbed, NoUser, NoUser,
                     NoIssue, <<>>)
           ELSE IF Recipe(body) = "none"
            THEN Dispatch(query, NoResponse, <<>>, NewEmbed, NoUser, NoUser,
                         NoIssue, <<>>)
           ELSE Step("actionUser", NoResponse,
                     <<Call("linear.user", ActorId(body))>>, NewEmbed, NoUser,
                     NoUser, NoIssue, <<>>)
    /\ UNCHANGED NODE_ENV

(***************************************************************************)
(* `await linear.user(...)` for the actor resolves, lines 90, 122, 142,    *)
(* and the recipe runs on to its next await.                               *)
(***************************************************************************)
ActionUserResolved ==
    /\ pc = "actionUser"
    /\ \E dn \in DisplayNames :
        LET body == req.body
            user == [id |-> ActorId(body), displayName |-> dn]
            cs == Settled("ok")
            ident == parseIdentifier(body.url)
        IN
        IF Recipe(body) = "CommentCreate"
        THEN Step("linearIssue", res, Append(cs, Call("linear.issue", 0)),
                  embed, user, assignee, linearIssue, dispatched)
        ELSE IF ident.threw
        THEN Throw(OtherError, cs, embed, user, assignee, linearIssue, dispatched)
        ELSE IF Recipe(body) = "IssueCreate"
        THEN LET e == IssueCreateEmbed(embed, body, ident.value, user) IN
             IF body.assigneeId # 0
             THEN Step("assignee", res,
                       Append(cs, Call("linear.user", body.assigneeId)),
                       e, user, assignee, linearIssue, dispatched)
             ELSE Dispatch(req.query, res, cs, IssueCreateTail(e, body, FALSE),
                           user, assignee, linearIssue, dispatched)
        ELSE \* IssueUpdate
             IF body.assigneeId # 0
             THEN Step("assignee", res,
                       Append(cs, Call("linear.user", body.assigneeId)),
                       embed, user, assignee, linearIssue, dispatched)
             ELSE Dispatch(req.query, res, cs,
                           IssueUpdateEmbed(embed, body, ident.value, user),
                           user, assignee, linearIssue, dispatched)
    /\ UNCHANGED <<NODE_ENV, req>>

\* a rejected lookup that is swallowed: the notification goes out anyway
LookupRejected_Swallowed ==
    /\ pc \in {"actionUser", "assignee", "linearIssue", "issueAssignee"}
    /\ Dispatch(req.query, res, Settled("fail"), embed, actionUser, assignee,
                linearIssue, dispatched)
    /\ UNCHANGED <<NODE_ENV, req>>

\* an awaited source-tracker lookup rejects: the catch block answers
LookupRejected ==
    /\ pc \in {"actionUser", "assignee", "linearIssue", "issueAssignee"}
    /\ Throw(OtherError, Settled("fail"), embed, actionUser, assignee,
             linearIssue, dispatched)
    /\ UNCHANGED <<NODE_ENV, req>>

(***************************************************************************)
(* `await linear.user(body.data.assignee.id)` resolves, lines 109, 126.    *)
(***************************************************************************)
AssigneeResolved ==
    /\ pc = "assignee"
    /\ \E dn \in DisplayNames :
        LET body == req.body
            user == [id |-> body.assigneeId, displayName |-> dn]
            ident == parseIdentifier(body.url)
            e == IF Recipe(body) = "IssueCreate"
                 THEN IssueCreateTail(embed, body, TRUE)
                 ELSE IssueUpdateEmbed(embed, body, ident.value, actionUser)
        IN Dispatch(req.query, res, Settled("ok"), e, actionUser, user,
                    linearIssue, dispatched)
    /\ UNCHANGED <<NODE_ENV, req>>

(***************************************************************************)
(* `await linear.issue(body.data.issue.id)` resolves, lines 143-155.       *)
(***************************************************************************)
LinearIssueResolved ==
    /\ pc = "linearIssue"
    /\ \E a \in 0 .. NumUsers :
        LET body == req.body
            issue == [fetched |-> TRUE, assigneeId |-> a]
            cs == Settled("ok")
            ident == parseIdentifier(body.url)
        IN
        IF ident.threw
        THEN Throw(OtherError, cs, embed, actionUser, assignee, issue, dispatched)
        ELSE IF a # 0
        THEN Step("issueAssignee", res, Append(cs, Call("issue.assignee", a)),
                  embed, actionUser, assignee, issue, dispatched)
        ELSE Dispatch(req.query, res, cs,
                      CommentCreateEmbed(embed, body, ident.value, actionUser),
                      actionUser, assignee, issue, dispatched)
    /\ UNCHANGED <<NODE_ENV, req>>

(***************************************************************************)
(* `await linearIssue.assignee` resolves, lines 147-155.                   *)
(***************************************************************************)
IssueAssigneeResolved ==
    /\ pc = "issueAssignee"
    /\ \E dn \in DisplayNames :
        LET body == req.body
            user == [id |-> linearIssue.assigneeId, displayName |-> dn]
            ident == parseIdentifier(body.url)
        IN Dispatch(req.query, res, Settled("ok"),
                    CommentCreateEmbed(embed, body, ident.value, actionUser),
                    actionUser, user, linearIssue, dispatched)
    /\ UNCHANGED <<NODE_ENV, req>>

(***************************************************************************)
(* `await fetch(...)` settles, lines 167-181.  fetch resolves for every    *)
(* HTTP answer, whatever its status, and rejects on a network failure; the *)
(* code does not look at the answer.                                       *)
(***************************************************************************)
FetchResolved ==
    /\ pc = "fetch"
    /\ \E outcome \in {"ok", "httpError"} :
        Step("done", OkResponse, Settled(outcome), embed, actionUser, assignee,
             linearIssue, dispatched)
    /\ UNCHANGED <<NODE_ENV, req>>

FetchRejected ==
    /\ pc = "fetch"
    /\ Throw(OtherError, Settled("fail"), embed, actionUser, assignee,
             linearIssue, dispatched)
    /\ UNCHANGED <<NODE_ENV, req>>

Next ==
    \/ Invoke
    \/ ActionUserResolved
    \/ AssigneeResolved
    \/ LinearIssueResolved
    \/ IssueAssigneeResolved
    \/ LookupRejected
    \/ FetchResolved
    \/ FetchRejected

Spec == Init /\ [][Next]_vars

TypeOK ==
    /\ NODE_ENV \in NodeEnvs
    /\ pc \in {"idle", "actionUser", "assignee", "linearIssue", "issueAssignee",
               "fetch", "done"}
    /\ res.sent \in BOOLEAN
    /\ Len(dispatched) <= 1

(***************************************************************************)
(* Vocabulary of the properties, stated on the request itself.             *)
(***************************************************************************)
Invoked == pc # "idle"
Answered == pc = "done" /\ res.sent

IsPost == req.method = "POST"
AllowListed == req.header \in {"35.231.147.226", "35.243.134.228"}
Development == NODE_ENV = "development"
GatePassed == IsPost /\ (Development \/ AllowListed)

QueryFields == {"webhookId", "webhookToken", "linearToken"}
QueryMissing == \E k \in QueryFields : req.query[k] = Undefined
QueryValid == \A k \in QueryFields : req.query[k] \notin {Undefined, ArrayValue}

SchemaMatched == SupportedPair(req.body) /\ req.body.wellFormed

GenericError == ErrorString("Something went wrong.")
Failed(status) ==
    Answered /\ res.statusCode = status /\ res.body.success = FALSE

LookupCalls == { i \in DOMAIN calls : calls[i].api # "fetch" }
FetchCalls == { i \in DOMAIN calls : calls[i].api = "fetch" }
NoOutboundCall == calls = <<>> /\ dispatched = <<>>

\* C1 as stated: every request from an IP outside the allow-list, outside
\* development mode, is answered 403, whatever its method, query and body.
C1_AnyMethod403 ==
    (Invoked /\ ~Development /\ ~AllowListed) =>
        (Answered /\ res.statusCode = 403)

\* C1 amended: every POST request from an IP outside the allow-list, outside
\* development mode, is answered 403 with success=false, whatever its query
\* and body; a request of another method is answered 405 before the IP is
\* looked at.
C1_Post403 ==
    (Invoked /\ ~Development /\ ~AllowListed) =>
        IF IsPost THEN Failed(403) /\ res.body.error.kind = "string"
        ELSE Failed(405)

C1_Witness ==
    /\ IsPost /\ ~Development /\ req.header = "203.0.113.7"
    /\ QueryMissing /\ ~SchemaMatched
    /\ Failed(403)

\* C2 as stated: every request missing one of the three query parameters is
\* answered 400 with success=false and a non-empty list of issues, whatever
\* its method, source IP and mode.
C2_AnyRequest400 ==
    (Invoked /\ QueryMissing) =>
        (Failed(400) /\ res.body.error.kind = "issues"
            /\ res.body.error.issues # <<>>)

\* C2 amended: every request that passed the gate (POST, and development
\* mode or an allow-listed IP) and misses one of the three query parameters
\* is answered 400 with success=false and a list of issues holding one issue
\* per parameter that is not a string, whatever its body.
C2_Gated400 ==
    (Invoked /\ GatePassed /\ QueryMissing) =>
        /\ Failed(400)
        /\ res.body.error.kind = "issues"
        /\ res.body.error.issues # <<>>
        /\ \A k \in QueryFields :
            (req.query[k] \in {Undefined, ArrayValue})
                <=> (\E i \in DOMAIN res.body.error.issues :
                        res.body.error.issues[i] = k)

C2_Witness ==
    /\ GatePassed /\ SchemaMatched
    /\ req.query["webhookId"] = "abc" /\ req.query["webhookToken"] = Undefined
    /\ req.query["linearToken"] = Undefined
    /\ Failed(400) /\ Len(res.body.error.issues) = 2

\* C3: every request whose method is not POST is answered 405 with
\* success=false, whatever its source IP, mode, query and body.
C3_NonPost405 ==
    (Invoked /\ ~IsPost) =>
        (Failed(405) /\ res.body.message = Null /\ res.body.error.kind = "string")

C3_Witness ==
    /\ req.method = "GET" /\ AllowListed /\ QueryValid /\ SchemaMatched
    /\ Failed(405)

\* C10: no outbound call (source-tracker lookup or dispatch POST) is issued
\* unless the method is POST, the process is in development mode or the IP
\* is allow-listed, all three query parameters are present, and the body
\* matched the schema; a request answered 405, 403, 400 or with the skip
\* response has caused no outbound call.
C10_NoCallBeforeValidation ==
    /\ ~NoOutboundCall =>
        (IsPost /\ (Development \/ AllowListed) /\ ~QueryMissing /\ QueryValid
            /\ SchemaMatched)
    /\ (Answered /\ res.statusCode \in {405, 403, 400}) => NoOutboundCall
    /\ (Answered /\ res.body.message = "Event skipped.") => NoOutboundCall

C10_Witness ==
    /\ pc = "fetch" /\ Len(calls) = 4 /\ Len(dispatched) = 1
    /\ ~Development /\ AllowListed

Validated == Invoked /\ GatePassed /\ QueryValid

\* C4 as stated: a request that passed the gate and the query validation
\* and whose body matches no supported schema is answered 200 with
\* success=true, message="Event skipped", error=null, and no lookup and no
\* dispatch POST is issued.
C4_SkipWithoutPeriod ==
    (Validated /\ ~SchemaMatched) =>
        /\ Answered /\ res.statusCode = 200
        /\ res.body = Envelope(TRUE, "Event skipped", ErrorNull)
        /\ NoOutboundCall

\* C4 amended: a request that passed the gate and the query validation and
\* whose body matches no supported schema is answered 200 with success=true,
\* message="Event skipped." (with the full stop), error=null, and no lookup
\* and no dispatch POST is issued.
C4_Skip ==
    (Validated /\ ~SchemaMatched) =>
        /\ Answered /\ res.statusCode = 200
        /\ res.body = Envelope(TRUE, "Event skipped.", ErrorNull)
        /\ NoOutboundCall

C4_Witness ==
    /\ Validated /\ ~Development /\ req.body.type = "Project"
    /\ Answered /\ res.body.message = "Event skipped."

\* C9 as stated: a request that passed the gate and the query validation
\* and whose body names a supported (type, action) pair but fails the
\* validation of a required field is answered 400 with success=false.
C9_Malformed400 ==
    (Validated /\ SupportedPair(req.body) /\ ~req.body.wellFormed) =>
        Failed(400)

\* C9 amended: such a request is answered like every other schema mismatch,
\* 200 with success=true, message="Event skipped.", error=null, and causes
\* no outbound call.
C9_MalformedSkipped ==
    (Validated /\ SupportedPair(req.body) /\ ~req.body.wellFormed) =>
        /\ Answered /\ res.statusCode = 200 /\ res.body.success = TRUE
        /\ res.body.message = "Event skipped." /\ res.body.error = ErrorNull
        /\ calls = <<>> /\ dispatched = <<>>

C9_Witness ==
    /\ Validated /\ req.body.type = ModelISSUE /\ req.body.action = ActionCREATE
    /\ ~req.body.wellFormed
    /\ Answered /\ res.statusCode = 200

\* C5: once a source-tracker lookup (actor, assignee, parent issue, parent
\* issue's assignee) has failed, in any recipe, the invocation is answered
\* 500 with success=false and the generic error, and no dispatch POST was or
\* will be issued.
C5_LookupFailure500 ==
    (\E i \in LookupCalls : calls[i].outcome = "fail") =>
        /\ Failed(500) /\ res.body.message = Null
        /\ res.body.error = GenericError
        /\ FetchCalls = {} /\ dispatched = <<>>

C5_Witness ==
    /\ Recipe(req.body) = "CommentCreate"
    /\ Len(calls) = 3 /\ calls[3].api = "issue.assignee"
    /\ calls[3].outcome = "fail" /\ calls[1].outcome = "ok"
    /\ Failed(500)

IssueUpdateWithoutMarker ==
    /\ Validated /\ SchemaMatched
    /\ req.body.type = ModelISSUE /\ req.body.action = ActionUPDATE
    /\ ~req.body.updatedFromStateId

EmptyDispatch ==
    /\ LookupCalls = {} /\ Cardinality(FetchCalls) = 1
    /\ embed = NewEmbed /\ actionUser = NoUser /\ assignee = NoUser
    /\ Len(dispatched) = 1
    /\ dispatched[1].embeds = <<NewEmbed>>
    /\ dispatched[1].content = NoContent

\* C8 as stated: a schema-valid Issue-Update whose updatedFrom lacks stateId
\* performs no lookup and sets nothing on the embed, exactly one dispatch
\* POST carries the default embed without content, and the response is 200
\* with success=true.
C8_AlwaysOk ==
    IssueUpdateWithoutMarker =>
        /\ EmptyDispatch
        /\ pc = "done" => (Answered /\ res.statusCode = 200
                              /\ res.body.success = TRUE)

\* C8 amended: a schema-valid Issue-Update whose updatedFrom lacks stateId
\* performs no lookup and sets nothing on the embed, exactly one dispatch
\* POST carries the default embed without content, and the response is 200
\* with success=true and message "OK" when the dispatch call returns; when
\* the dispatch call itself raises, the response is 500 with success=false.
C8_EmptyDispatch ==
    IssueUpdateWithoutMarker =>
        /\ EmptyDispatch
        /\ pc \in {"fetch", "done"}
        /\ pc = "done" =>
            IF calls[1].outcome = "fail"
            THEN Failed(500) /\ res.body.error = GenericError
            ELSE Answered /\ res.statusCode = 200
                    /\ res.body = Envelope(TRUE, "OK", ErrorNull)

C8_Witness ==
    /\ IssueUpdateWithoutMarker /\ req.body.assigneeId # 0
    /\ req.body.assigneeId # req.body.creatorId
    /\ Answered /\ res.statusCode = 200 /\ Len(dispatched) = 1

NoLookupFailed == \A i \in LookupCalls : calls[i].outcome = "ok"
DispatchFailed ==
    \E i \in FetchCalls : calls[i].outcome \in {"fail", "httpError"}

\* C6: a request that passed the gate, the query validation and the schema
\* validation and whose lookups all succeeded has issued exactly one
\* dispatch POST when it is answered; when that dispatch failed (the call
\* raised, or the chat endpoint answered with an error status) the response
\* is 500 with success=false and the generic error, never 200 "OK".
C6_DispatchOnceAndReported ==
    (Validated /\ SchemaMatched /\ NoLookupFailed /\ pc = "done") =>
        /\ Cardinality(FetchCalls) = 1 /\ Len(dispatched) = 1
        /\ DispatchFailed =>
            (Failed(500) /\ res.body.error = GenericError)

\* C7: in every dispatched payload the content mention is present exactly
\* when an actor and an assignee were resolved, their ids differ and the
\* assignee's display name is a key of the mention table, and it then
\* mentions the mapped chat user id.
C7_MentionIffMapped ==
    \A i \in DOMAIN dispatched :
        LET mapped ==
                /\ actionUser # NoUser /\ assignee # NoUser
                /\ actionUser.id # assignee.id
                /\ assignee.displayName \in DOMAIN LINEAR_DISPLAY_NAME_TO_DISCORD_ID
        IN /\ dispatched[i].content.present <=> mapped
           /\ mapped => dispatched[i].content.mention =
                            LINEAR_DISPLAY_NAME_TO_DISCORD_ID[assignee.displayName]

====
